---- MODULE Spec2Model ----
(***************************************************************************)
(* Model of tubely's video upload endpoint (handler_upload_video.go):      *)
(* handlerUploadVideo, getVideoAspectRatio and processVideoForFastStart.   *)
(***************************************************************************)
EXTENDS Integers, Sequences, FiniteSets, TLC

(***************************************************************************)
(* float64 arithmetic, as far as getVideoAspectRatio uses it.              *)
(* A float64 is [kind, neg, man, exp]: kind "fin" is the value             *)
(* man * 2^exp with man a sequence of MantBits bits, most significant      *)
(* first and leading bit 1; kinds "zero", "inf" and "nan" carry no digits. *)
(* Every operation rounds to nearest, ties to even, as IEEE 754 does.      *)
(***************************************************************************)
MantBits == 53

FZero == [kind |-> "zero", neg |-> FALSE, man |-> << >>, exp |-> 0]

FInf == [kind |-> "inf", neg |-> FALSE, man |-> << >>, exp |-> 0]

FNaN == [kind |-> "nan", neg |-> FALSE, man |-> << >>, exp |-> 0]

RECURSIVE Pow2(_)
Pow2(n) == IF n = 0 THEN 1 ELSE 2 * Pow2(n - 1)

\* The largest e with b * 2^e <= a (a >= b > 0).
RECURSIVE ShiftUp(_, _)
ShiftUp(a, b) == IF 2 * b <= a THEN 1 + ShiftUp(a, 2 * b) ELSE 0

\* The smallest s with a * 2^s >= b (0 < a < b).
RECURSIVE ShiftDown(_, _)
ShiftDown(a, b) == IF a >= b THEN 0 ELSE 1 + ShiftDown(2 * a, b)

\* The next 4 * n quotient bits of r/b (0 <= r < b), most significant first,
\* and the remainder left after them: long division, a hex digit at a time.
RECURSIVE QuotBits(_, _, _)
QuotBits(r, b, n) ==
    IF n = 0 THEN [bits |-> << >>, rem |-> r]
    ELSE LET d == (16 * r) \div b
             rest == QuotBits((16 * r) % b, b, n - 1)
         IN  [bits |-> <<d \div 8, (d \div 4) % 2, (d \div 2) % 2, d % 2>>
                       \o rest.bits,
              rem |-> rest.rem]

\* bits + 1 on a most-significant-first bit sequence; carry is the overflow.
BitsInc(bits) ==
    LET n == Len(bits)
        zeros == {i \in 1..n : bits[i] = 0}
    IN  IF zeros = {} THEN [bits |-> [i \in 1..n |-> 0], carry |-> 1]
        ELSE LET k == CHOOSE i \in zeros : \A j \in zeros : j <= i
             IN  [bits |-> [i \in 1..n |-> IF i < k THEN bits[i]
                                            ELSE IF i = k THEN 1 ELSE 0],
                  carry |-> 0]

Zeros(n) == [i \in 1..n |-> 0]

AllZero(bits) == \A i \in 1..Len(bits) : bits[i] = 0

\* bits without its leading zeros.
StripZeros(bits) ==
    IF AllZero(bits) THEN << >>
    ELSE LET k == CHOOSE i \in 1..Len(bits) :
                      bits[i] = 1 /\ \A j \in 1..(i - 1) : bits[j] = 0
         IN  SubSeq(bits, k, Len(bits))

\* -1, 0, 1 as a < b, a = b, a > b on the digits from..Len(a) of two bit
\* sequences of one length: the first digit that differs decides.
BitsCmpFrom(a, b, from) ==
    LET diff == {i \in from..Len(a) : a[i] # b[i]}
    IN  IF diff = {} THEN 0
        ELSE LET k == CHOOSE i \in diff : \A j \in diff : i <= j
             IN  IF a[k] < b[k] THEN -1 ELSE 1

BitsCmp(a, b) == BitsCmpFrom(a, b, 1)

\* a - b on bit sequences of one length, a >= b: digit i borrows exactly
\* when the digits below it hold less in a than in b.
BitsSub(a, b) ==
    [i \in 1..Len(a) |->
        LET borrow == IF BitsCmpFrom(a, b, i + 1) < 0 THEN 1 ELSE 0
        IN  (a[i] - b[i] - borrow + 2) % 2]

\* Round the exact value bits * 2^exp (bits with leading 1, any length,
\* sticky = a nonzero part below the last bit) to MantBits bits, nearest even.
RoundBits(bits, exp, sticky, neg) ==
    LET n == Len(bits)
    IN  IF n <= MantBits
        THEN [kind |-> "fin", neg |-> neg,
              man |-> bits \o Zeros(MantBits - n), exp |-> exp - (MantBits - n)]
        ELSE LET top == SubSeq(bits, 1, MantBits)
                 guard == bits[MantBits + 1]
                 below == ~AllZero(SubSeq(bits, MantBits + 2, n)) \/ sticky
                 up == guard = 1 /\ (below \/ top[MantBits] = 1)
                 e == exp + (n - MantBits)
                 inc == BitsInc(top)
             IN  IF ~up THEN [kind |-> "fin", neg |-> neg, man |-> top, exp |-> e]
                 ELSE IF inc.carry = 1
                 THEN [kind |-> "fin", neg |-> neg,
                       man |-> <<1>> \o Zeros(MantBits - 1), exp |-> e + 1]
                 ELSE [kind |-> "fin", neg |-> neg, man |-> inc.bits, exp |-> e]

\* float64(w) / float64(h) for non-negative integers below 2^53 (both
\* conversions exact): the correctly rounded quotient, x/0 = +Inf, 0/0 = NaN.
FDivInt(w, h) ==
    IF h = 0 THEN (IF w = 0 THEN FNaN ELSE FInf)
    ELSE IF w = 0 THEN FZero
    ELSE LET up == IF w >= h THEN ShiftUp(w, h) ELSE 0
             down == IF w >= h THEN 0 ELSE ShiftDown(w, h)
             a == w * Pow2(down)
             b == h * Pow2(up)
             digits == (MantBits + 3) \div 4
             q == QuotBits(a - b, b, digits)
         IN  RoundBits(<<1>> \o q.bits, (up - down) - 4 * digits, q.rem # 0, FALSE)

\* -1, 0, 1 comparing the magnitudes of two finite or zero values.
MagCmp(x, y) ==
    IF x.kind = "zero" /\ y.kind = "zero" THEN 0
    ELSE IF x.kind = "zero" THEN -1
    ELSE IF y.kind = "zero" THEN 1
    ELSE IF x.exp # y.exp THEN (IF x.exp < y.exp THEN -1 ELSE 1)
    ELSE BitsCmp(x.man, y.man)

\* x - y, for x and y not negative.
FSub(x, y) ==
    IF x.kind = "nan" \/ y.kind = "nan" THEN FNaN
    ELSE IF x.kind = "inf" /\ y.kind = "inf" THEN FNaN
    ELSE IF x.kind = "inf" THEN FInf
    ELSE IF y.kind = "inf" THEN [FInf EXCEPT !.neg = TRUE]
    ELSE IF y.kind = "zero" THEN x
    ELSE IF x.kind = "zero" THEN [y EXCEPT !.neg = TRUE]
    ELSE LET c == MagCmp(x, y)
             big == IF c >= 0 THEN x ELSE y
             small == IF c >= 0 THEN y ELSE x
             e == IF big.exp < small.exp THEN big.exp ELSE small.exp
             bb == big.man \o Zeros(big.exp - e)
             sb == small.man \o Zeros(small.exp - e)
             n == IF Len(bb) > Len(sb) THEN Len(bb) ELSE Len(sb)
             diff == StripZeros(BitsSub(Zeros(n - Len(bb)) \o bb,
                                        Zeros(n - Len(sb)) \o sb))
         IN  IF c = 0 THEN FZero
             ELSE RoundBits(diff, e, FALSE, c < 0)

\* math.Abs
FAbs(x) == [x EXCEPT !.neg = FALSE]

\* x <= y for x, y not negative; false when either is NaN.
FLeq(x, y) ==
    IF x.kind = "nan" \/ y.kind = "nan" THEN FALSE
    ELSE IF x.kind = "inf" THEN y.kind = "inf"
    ELSE IF y.kind = "inf" THEN TRUE
    ELSE MagCmp(x, y) <= 0

\* The constants of getVideoAspectRatio, each the float64 nearest its value.
landscape == FDivInt(16, 9)

portrait == FDivInt(9, 16)

tolerance == FDivInt(5, 100)

\* The classification of the first stream's width and height.
ClassifyRatio(width, height) ==
    LET ratio == FDivInt(width, height)
    IN  IF FLeq(FAbs(FSub(ratio, landscape)), tolerance) THEN "16:9"
        ELSE IF FLeq(FAbs(FSub(ratio, portrait)), tolerance) THEN "9:16"
        ELSE "other"

(***************************************************************************)
(* ffprobe's outcome on a file: the command fails, or it prints text that  *)
(* is not JSON, or it prints the streams (each with Width and Height).     *)
(***************************************************************************)
Stream(width, height) == [Width |-> width, Height |-> height]

ProbeOk(streams) == [run |-> "ok", json |-> "ok", streams |-> streams]

ProbeRunError == [run |-> "error", json |-> "ok", streams |-> << >>]

ProbeBadJSON == [run |-> "ok", json |-> "malformed", streams |-> << >>]

\* getVideoAspectRatio on what ffprobe gave back: [aspect, err].
getVideoAspectRatio(out) ==
    IF out.run # "ok" THEN [aspect |-> "", err |-> "exit status"]
    ELSE IF out.json # "ok" THEN [aspect |-> "", err |-> "json unmarshal"]
    ELSE IF Len(out.streams) = 0
    THEN [aspect |-> "", err |-> "no streams found in ffprobe output"]
    ELSE [aspect |-> ClassifyRatio(out.streams[1].Width, out.streams[1].Height),
          err |-> "nil"]

(***************************************************************************)
(* Text: a string is a sequence of tokens, so that the string functions    *)
(* the code calls work on what the strings hold.                           *)
(***************************************************************************)
\* filepath.Ext: the suffix beginning at the final dot of the path, or "".
Ext(path) ==
    LET dots == {i \in 1..Len(path) : path[i] = "."}
    IN  IF dots = {} THEN << >>
        ELSE LET k == CHOOSE i \in dots : \A j \in dots : j <= i
             IN  SubSeq(path, k, Len(path))

HasSuffix(s, suffix) ==
    /\ Len(suffix) <= Len(s)
    /\ SubSeq(s, Len(s) - Len(suffix) + 1, Len(s)) = suffix

\* strings.TrimSuffix
TrimSuffix(s, suffix) ==
    IF HasSuffix(s, suffix) THEN SubSeq(s, 1, Len(s) - Len(suffix)) ELSE s

\* The output path processVideoForFastStart derives from its input path.
OutputFilePath(filePath) ==
    LET ext == Ext(filePath)
        base == TrimSuffix(filePath, ext)
    IN  base \o <<".", "processing">> \o ext

\* os.CreateTemp("", "tubely-upload.mp4"): the pattern holds no "*", so the
\* random string n goes at the end of the name, in the temporary directory.
TempPattern == <<"tubely-upload", ".", "mp4">>

\* The random strings the names are made with: decimal 32-bit numbers.
RandomStrings == <<"1804289383", "846930886", "1681692777", "1714636915">>

TempName(n) == <<"/tmp/">> \o TempPattern \o <<RandomStrings[n]>>

HexDigits == <<"0", "1", "2", "3", "4", "5", "6", "7",
               "8", "9", "a", "b", "c", "d", "e", "f">>

\* hex.EncodeToString: two lower-case digits per byte, high nibble first.
RECURSIVE EncodeToString(_)
EncodeToString(bytes) ==
    IF bytes = << >> THEN << >>
    ELSE <<HexDigits[(bytes[1] \div 16) + 1], HexDigits[(bytes[1] % 16) + 1]>>
         \o EncodeToString(Tail(bytes))

\* Variant of Prefix: the first two cases of the switch exchanged.
PrefixSwapped(aspect) ==
    IF aspect = "16:9" THEN "portrait/"
    ELSE IF aspect = "9:16" THEN "landscape/"
    ELSE "other/"

\* The switch on the aspect ratio (lines 105-113).
Prefix(aspect) ==
    IF aspect = "16:9" THEN "landscape/"
    ELSE IF aspect = "9:16" THEN "portrait/"
    ELSE "other/"

\* key := prefix + pathID + ".mp4"
Key(prefix, slice) == <<prefix>> \o EncodeToString(slice) \o <<".", "mp4">>

s3Bucket == "tubely-bucket"

s3Region == "us-east-2"

\* fmt.Sprintf("https://%s.s3.%s.amazonaws.com/%s", bucket, region, key)
URL(key) == <<"https://", s3Bucket, ".s3.", s3Region, ".amazonaws.com/">> \o key

(***************************************************************************)
(* The Content-Type header of the uploaded part: a media type as written   *)
(* and the state of its parameters.  mime.ParseMediaType lower-cases the   *)
(* type and fails on no type and on a malformed parameter.                 *)
(***************************************************************************)
ContentTypes ==
    { [mtype |-> "video/mp4", params |-> "none"],
      [mtype |-> "Video/MP4", params |-> "valid"],
      [mtype |-> "image/png", params |-> "none"],
      [mtype |-> "", params |-> "none"],
      [mtype |-> "video/mp4", params |-> "malformed"] }

ToLower(t) == IF t = "Video/MP4" THEN "video/mp4" ELSE t

ParseMediaType(v) ==
    IF v.mtype = "" THEN [mediaType |-> "", err |-> "mime: no media type"]
    ELSE IF v.params = "malformed"
    THEN [mediaType |-> ToLower(v.mtype), err |-> "mime: invalid media parameter"]
    ELSE [mediaType |-> ToLower(v.mtype), err |-> "nil"]

(***************************************************************************)
(* The bounds of the model.                                                *)
(***************************************************************************)
\* Upload requests in flight, each in a goroutine of its own.
NumReqs == 2

\* Random strings os.CreateTemp can draw for a file name.
NumSuffixes == 2

Reqs == 1..NumReqs

Suffixes == 1..NumSuffixes

Users == {"alice", "bob"}

Videos == {"v1", "v2"}

Owner(v) == IF v = "v1" THEN "alice" ELSE "bob"

\* What rand.Read can fill the slice with (two bytes stand for the 32).
RandomSlices == {<<0, 171>>, <<255, 16>>}

\* What ffprobe can give back for a staged file.
ProbeOutputs ==
    { ProbeRunError, ProbeBadJSON, ProbeOk(<< >>),
      ProbeOk(<<Stream(1920, 1080), Stream(1080, 1920)>>),
      ProbeOk(<<Stream(1080, 1920)>>),
      ProbeOk(<<Stream(640, 480)>>) }

\* The first-stream sizes getVideoAspectRatio is tried on by itself.
Widths == {0, 1, 9, 16, 41, 49, 310, 311, 312, 328, 329, 330, 640, 1080, 1920}

Heights == {0, 1, 9, 16, 80, 180, 480, 1080, 1920}

(***************************************************************************)
(* State.                                                                  *)
(*   pc[r]       the call of handlerUploadVideo request r makes next       *)
(*   request[r]  what the handler has read of request r: the video named   *)
(*               by the path, the user of the token, the part's header     *)
(*   local[r]    the handler's local variables, gone when it returns       *)
(*   resp[r]     the response written for r                                *)
(*   trace[r]    the calls r has made, in order                            *)
(*   fs          the files of the temporary directory, with their creator  *)
(*   s3          the objects the storage accepted, with the request        *)
(*   db          the video records                                         *)
(*   width, height, result   a run of getVideoAspectRatio by itself        *)
(***************************************************************************)
VARIABLES pc, request, local, resp, trace, fs, s3, db, width, height, result

vars == <<pc, request, local, resp, trace, fs, s3, db, width, height, result>>

handlerVars == <<pc, request, local, resp, trace, fs, s3, db>>

aspectVars == <<width, height, result>>

NoPath == << >>

NoVideo == [ID |-> "", UserID |-> "", VideoURL |-> << >>]

NoHeader == [mtype |-> "", params |-> "unread"]

NoRequest == [videoID |-> "", userID |-> "", contentType |-> NoHeader]

NoLocals ==
    [video |-> NoVideo, mediaType |-> "", tempFile |-> NoPath, slice |-> << >>,
     aspect |-> "", processedFilePath |-> NoPath, key |-> << >>]

NoResponse == [status |-> 0, msg |-> "", body |-> NoVideo]

Paths(files) == {f.path : f \in files}

HandlerInit ==
    /\ pc = [r \in Reqs |-> "ParseID"]
    /\ request = [r \in Reqs |-> NoRequest]
    /\ local = [r \in Reqs |-> NoLocals]
    /\ resp = [r \in Reqs |-> NoResponse]
    /\ trace = [r \in Reqs |-> << >>]
    /\ fs = {}
    /\ s3 = {}
    /\ db = [v \in Videos |-> [ID |-> v, UserID |-> Owner(v), VideoURL |-> << >>]]

Init == HandlerInit /\ width = 0 /\ height = 0 /\ result = "none"

(***************************************************************************)
(* Steps shared by the handler's calls.                                    *)
(***************************************************************************)
Called(r, stage) == trace' = [trace EXCEPT ![r] = Append(@, stage)]

\* The deferred os.Remove(tempFile.Name()), registered once the temporary
\* file exists (line 83), applied to the files as the step leaves them.
Deferred(r, files) ==
    IF local[r].tempFile # NoPath
    THEN {f \in files : f.path # local[r].tempFile}
    ELSE files

\* return: the deferred calls run and the locals are gone.
Return(r, files) ==
    /\ pc' = [pc EXCEPT ![r] = "done"]
    /\ local' = [local EXCEPT ![r] = NoLocals]
    /\ fs' = Deferred(r, files)

\* respondWithError(w, code, msg, err); return
Fail(r, stage, code, msg, files) ==
    /\ Called(r, stage)
    /\ resp' = [resp EXCEPT ![r] = [status |-> code, msg |-> msg, body |-> NoVideo]]
    /\ Return(r, files)
    /\ UNCHANGED <<request, s3, db>>

\* The call succeeded: on to the next one.
Continue(r, stage, next) ==
    /\ Called(r, stage)
    /\ pc' = [pc EXCEPT ![r] = next]
    /\ UNCHANGED resp

(***************************************************************************)
(* handlerUploadVideo, one action per call.                                *)
(***************************************************************************)
\* uuid.Parse(r.PathValue("videoID")), lines 29-34
ParseID(r) ==
    /\ pc[r] = "ParseID"
    /\ UNCHANGED aspectVars
    /\ \/ Fail(r, "ParseID", 400, "Invalid ID", fs)
       \/ \E v \in Videos :
            /\ request' = [request EXCEPT ![r].videoID = v]
            /\ Continue(r, "ParseID", "GetBearerToken")
            /\ UNCHANGED <<local, fs, s3, db>>

\* auth.GetBearerToken(r.Header), lines 36-40
GetBearerToken(r) ==
    /\ pc[r] = "GetBearerToken"
    /\ UNCHANGED aspectVars
    /\ \/ Fail(r, "GetBearerToken", 401, "Couldn't find JWT", fs)
       \/ /\ Continue(r, "GetBearerToken", "ValidateJWT")
          /\ UNCHANGED <<request, local, fs, s3, db>>

\* auth.ValidateJWT(token, cfg.jwtSecret), lines 42-46
ValidateJWT(r) ==
    /\ pc[r] = "ValidateJWT"
    /\ UNCHANGED aspectVars
    /\ \/ Fail(r, "ValidateJWT", 401, "Couldn't validate JWT", fs)
       \/ \E u \in Users :
            /\ request' = [request EXCEPT ![r].userID = u]
            /\ Continue(r, "ValidateJWT", "GetVideo")
            /\ UNCHANGED <<local, fs, s3, db>>

\* cfg.db.GetVideo(videoID), lines 48-52
GetVideo(r) ==
    /\ pc[r] = "GetVideo"
    /\ UNCHANGED aspectVars
    /\ \/ Fail(r, "GetVideo", 500, "Couldn't get video", fs)
       \/ /\ local' = [local EXCEPT ![r].video = db[request[r].videoID]]
          /\ Continue(r, "GetVideo", "CheckOwner")
          /\ UNCHANGED <<request, fs, s3, db>>

\* respondWithError(w, code, msg, err) with no return after it: the handler
\* goes on to its next call.
RespondAndGoOn(r, stage, code, msg, next) ==
    /\ Called(r, stage)
    /\ resp' = [resp EXCEPT ![r] = [status |-> code, msg |-> msg, body |-> NoVideo]]
    /\ pc' = [pc EXCEPT ![r] = next]
    /\ UNCHANGED <<request, local, fs, s3, db>>

\* Variant of CheckOwner: the comparison of line 54 left out.
CheckOwnerMissing(r) ==
    /\ pc[r] = "CheckOwner"
    /\ UNCHANGED aspectVars
    /\ Continue(r, "CheckOwner", "FormFile")
    /\ UNCHANGED <<request, local, fs, s3, db>>

\* Variant of CheckOwner: the return of line 56 left out.
CheckOwnerNoReturn(r) ==
    /\ pc[r] = "CheckOwner"
    /\ UNCHANGED aspectVars
    /\ IF local[r].video.UserID # request[r].userID
       THEN RespondAndGoOn(r, "CheckOwner", 401,
                "You don't have permission to upload video for this video ID",
                "FormFile")
       ELSE /\ Continue(r, "CheckOwner", "FormFile")
            /\ UNCHANGED <<request, local, fs, s3, db>>

\* if video.UserID != userID, lines 54-57
CheckOwner(r) ==
    /\ pc[r] = "CheckOwner"
    /\ UNCHANGED aspectVars
    /\ IF local[r].video.UserID # request[r].userID
       THEN Fail(r, "CheckOwner", 401,
                 "You don't have permission to upload video for this video ID", fs)
       ELSE /\ Continue(r, "CheckOwner", "FormFile")
            /\ UNCHANGED <<request, local, fs, s3, db>>

\* r.FormFile("video"), lines 59-64
FormFile(r) ==
    /\ pc[r] = "FormFile"
    /\ UNCHANGED aspectVars
    /\ \/ Fail(r, "FormFile", 401, "Couldn't get image data from form", fs)
       \/ \E ct \in ContentTypes :
            /\ request' = [request EXCEPT ![r].contentType = ct]
            /\ Continue(r, "FormFile", "ParseMediaType")
            /\ UNCHANGED <<local, fs, s3, db>>

\* mime.ParseMediaType(fileHeader.Header.Get("Content-Type")), lines 66-70
ParseMediaTypeStep(r) ==
    /\ pc[r] = "ParseMediaType"
    /\ UNCHANGED aspectVars
    /\ LET parsed == ParseMediaType(request[r].contentType)
       IN  IF parsed.err # "nil"
           THEN Fail(r, "ParseMediaType", 400, "Invalid Content-Type for video", fs)
           ELSE /\ local' = [local EXCEPT ![r].mediaType = parsed.mediaType]
                /\ Continue(r, "ParseMediaType", "CheckMediaType")
                /\ UNCHANGED <<request, fs, s3, db>>

\* Variant of CheckMediaType: the return of line 74 left out.
CheckMediaTypeNoReturn(r) ==
    /\ pc[r] = "CheckMediaType"
    /\ UNCHANGED aspectVars
    /\ IF local[r].mediaType # "video/mp4"
       THEN RespondAndGoOn(r, "CheckMediaType", 400,
                           "Unsupported video media type", "CreateTemp")
       ELSE /\ Continue(r, "CheckMediaType", "CreateTemp")
            /\ UNCHANGED <<request, local, fs, s3, db>>

\* if mediaType != "video/mp4", lines 72-75
CheckMediaType(r) ==
    /\ pc[r] = "CheckMediaType"
    /\ UNCHANGED aspectVars
    /\ IF local[r].mediaType # "video/mp4"
       THEN Fail(r, "CheckMediaType", 400, "Unsupported video media type", fs)
       ELSE /\ Continue(r, "CheckMediaType", "CreateTemp")
            /\ UNCHANGED <<request, local, fs, s3, db>>

\* os.CreateTemp("", "tubely-upload.mp4") and the two defers, lines 77-84:
\* the file is created exclusively, under a name no file has.
CreateTemp(r) ==
    /\ pc[r] = "CreateTemp"
    /\ UNCHANGED aspectVars
    /\ \/ Fail(r, "CreateTemp", 500, "Couldn't create temp file", fs)
       \/ \E n \in Suffixes :
            /\ TempName(n) \notin Paths(fs)
            /\ fs' = fs \cup {[path |-> TempName(n), by |-> r]}
            /\ local' = [local EXCEPT ![r].tempFile = TempName(n)]
            /\ Continue(r, "CreateTemp", "Copy")
            /\ UNCHANGED <<request, s3, db>>

\* Variant of Copy: the return of line 88 left out.
CopyNoReturn(r) ==
    /\ pc[r] = "Copy"
    /\ UNCHANGED aspectVars
    /\ \/ RespondAndGoOn(r, "Copy", 500, "Couldn't write to temp file", "RandRead")
       \/ /\ Continue(r, "Copy", "RandRead")
          /\ UNCHANGED <<request, local, fs, s3, db>>

\* io.Copy(tempFile, file) and the rewind, lines 86-90
Copy(r) ==
    /\ pc[r] = "Copy"
    /\ UNCHANGED aspectVars
    /\ \/ Fail(r, "Copy", 500, "Couldn't write to temp file", fs)
       \/ /\ Continue(r, "Copy", "RandRead")
          /\ UNCHANGED <<request, local, fs, s3, db>>

\* rand.Read(slice), lines 92-97
RandRead(r) ==
    /\ pc[r] = "RandRead"
    /\ UNCHANGED aspectVars
    /\ \/ Fail(r, "RandRead", 500, "Couldn't generate random ID", fs)
       \/ \E bytes \in RandomSlices :
            /\ local' = [local EXCEPT ![r].slice = bytes]
            /\ Continue(r, "RandRead", "Probe")
            /\ UNCHANGED <<request, fs, s3, db>>

\* cfg.getVideoAspectRatio(tempFile.Name()), lines 99-103
Probe(r) ==
    /\ pc[r] = "Probe"
    /\ UNCHANGED aspectVars
    /\ \E out \in ProbeOutputs :
         LET got == getVideoAspectRatio(out)
         IN  IF got.err # "nil"
             THEN Fail(r, "Probe", 500, "Couldn't get video aspect ratio", fs)
             ELSE /\ local' = [local EXCEPT ![r].aspect = got.aspect]
                  /\ Continue(r, "Probe", "Remux")
                  /\ UNCHANGED <<request, fs, s3, db>>

\* processVideoForFastStart(filePath) for request r on the files there are:
\* what it can return, [path, err], and the files it leaves.  ffmpeg is run
\* without -y and with no terminal, so it does not replace a file that is
\* already at the output path; otherwise it fails (leaving nothing, or a
\* part of the output) or ends well (with an output that may be empty).
processVideoForFastStart(filePath, files, r) ==
    LET outputFilePath == OutputFilePath(filePath)
        written == files \cup {[path |-> outputFilePath, by |-> r]}
    IN  IF outputFilePath \in Paths(files)
        THEN {[path |-> NoPath, err |-> "ffmpeg error", files |-> files]}
        ELSE {[path |-> NoPath, err |-> "ffmpeg error", files |-> files],
              [path |-> NoPath, err |-> "ffmpeg error", files |-> written],
              [path |-> NoPath, err |-> "processed file is empty", files |-> written],
              [path |-> outputFilePath, err |-> "nil", files |-> written]}

\* processVideoForFastStart(tempFile.Name()), lines 115-119
Remux(r) ==
    /\ pc[r] = "Remux"
    /\ UNCHANGED aspectVars
    /\ \E out \in processVideoForFastStart(local[r].tempFile, fs, r) :
         IF out.err # "nil"
         THEN Fail(r, "Remux", 500, "Couldn't process video for fast start", out.files)
         ELSE /\ fs' = out.files
              /\ local' = [local EXCEPT ![r].processedFilePath = out.path]
              /\ Continue(r, "Remux", "OpenProcessed")
              /\ UNCHANGED <<request, s3, db>>

\* os.Open(processedFilePath), lines 121-127
OpenProcessed(r) ==
    /\ pc[r] = "OpenProcessed"
    /\ UNCHANGED aspectVars
    /\ \/ Fail(r, "OpenProcessed", 500, "Couldn't open processed video file", fs)
       \/ /\ Continue(r, "OpenProcessed", "PutObject")
          /\ UNCHANGED <<request, local, fs, s3, db>>

\* Variant of PutObject: the return of line 145 left out.
PutObjectNoReturn(r) ==
    /\ pc[r] = "PutObject"
    /\ UNCHANGED aspectVars
    /\ LET key == Key(Prefix(local[r].aspect), local[r].slice)
       IN  \/ /\ Called(r, "PutObject")
              /\ resp' = [resp EXCEPT ![r] = [status |-> 500,
                                              msg |-> "Couldn't upload video to S3",
                                              body |-> NoVideo]]
              /\ pc' = [pc EXCEPT ![r] = "UpdateVideo"]
              /\ local' = [local EXCEPT ![r].key = key]
              /\ UNCHANGED <<request, fs, s3, db>>
           \/ /\ s3' = s3 \cup {[key |-> key, by |-> r,
                                 contentType |-> local[r].mediaType]}
              /\ local' = [local EXCEPT ![r].key = key]
              /\ Continue(r, "PutObject", "UpdateVideo")
              /\ UNCHANGED <<request, fs, db>>

\* The key and cfg.s3Client.PutObject, lines 129-146
PutObject(r) ==
    /\ pc[r] = "PutObject"
    /\ UNCHANGED aspectVars
    /\ LET key == Key(Prefix(local[r].aspect), local[r].slice)
       IN  \/ Fail(r, "PutObject", 500, "Couldn't upload video to S3", fs)
           \/ /\ s3' = s3 \cup {[key |-> key, by |-> r,
                                 contentType |-> local[r].mediaType]}
              /\ local' = [local EXCEPT ![r].key = key]
              /\ Continue(r, "PutObject", "UpdateVideo")
              /\ UNCHANGED <<request, fs, db>>

\* The URL, cfg.db.UpdateVideo(video) and the response, lines 148-157
UpdateVideo(r) ==
    /\ pc[r] = "UpdateVideo"
    /\ UNCHANGED aspectVars
    /\ LET video == [local[r].video EXCEPT !.VideoURL = URL(local[r].key)]
       IN  \/ Fail(r, "UpdateVideo", 500, "Couldn't update video with URL", fs)
           \/ /\ db' = [db EXCEPT ![video.ID] = video]
              /\ Called(r, "UpdateVideo")
              /\ resp' = [resp EXCEPT ![r] = [status |-> 200, msg |-> "", body |-> video]]
              /\ Return(r, fs)
              /\ UNCHANGED <<request, s3>>

handlerUploadVideo(r) ==
    \/ ParseID(r)
    \/ GetBearerToken(r)
    \/ ValidateJWT(r)
    \/ GetVideo(r)
    \/ CheckOwner(r)
    \/ FormFile(r)
    \/ ParseMediaTypeStep(r)
    \/ CheckMediaType(r)
    \/ CreateTemp(r)
    \/ Copy(r)
    \/ RandRead(r)
    \/ Probe(r)
    \/ Remux(r)
    \/ OpenProcessed(r)
    \/ PutObject(r)
    \/ UpdateVideo(r)

Next == \E r \in Reqs : handlerUploadVideo(r)

Spec == Init /\ [][Next]_vars

(***************************************************************************)
(* getVideoAspectRatio by itself, on a first stream of any size.           *)
(***************************************************************************)
AspectInit ==
    /\ HandlerInit
    /\ width \in Widths
    /\ height \in Heights
    /\ result = "none"

Classify ==
    /\ result = "none"
    /\ result' = getVideoAspectRatio(ProbeOk(<<Stream(width, height)>>)).aspect
    /\ UNCHANGED <<width, height>>
    /\ UNCHANGED handlerVars

AspectSpec == AspectInit /\ [][Classify]_vars

(***************************************************************************)
(* Vocabulary of the properties.                                           *)
(***************************************************************************)
\* The calls of handlerUploadVideo in the order of its text.
StageOrder ==
    <<"ParseID", "GetBearerToken", "ValidateJWT", "GetVideo", "CheckOwner",
      "FormFile", "ParseMediaType", "CheckMediaType", "CreateTemp", "Copy",
      "RandRead", "Probe", "Remux", "OpenProcessed", "PutObject", "UpdateVideo">>

InTrace(r, stage) == \E i \in 1..Len(trace[r]) : trace[r][i] = stage

LastCall(r) == trace[r][Len(trace[r])]

Done(r) == pc[r] = "done"

Failed(r) == Done(r) /\ resp[r].status # 200

FailedAt(r, stage) == Failed(r) /\ LastCall(r) = stage

\* r's token names a user who does not own the video r's path names.
NonOwner(r) ==
    /\ request[r].videoID # ""
    /\ request[r].userID # ""
    /\ request[r].userID # db[request[r].videoID].UserID

FilesBy(r) == {f \in fs : f.by = r}

\* C1: the record is written (UpdateVideo, with the new URL) only after
\* PutObject has accepted the object of that request's key: a request about
\* to call UpdateVideo has its key among the accepted objects, every request
\* that called UpdateVideo called PutObject before and had it accepted, a
\* request whose PutObject failed never calls UpdateVideo, and every URL a
\* record holds is the URL of an accepted object.
C1_UpdateOnlyAfterPut ==
    /\ \A r \in Reqs :
         /\ pc[r] = "UpdateVideo" =>
              \E o \in s3 : o.by = r /\ o.key = local[r].key
         /\ InTrace(r, "UpdateVideo") =>
              /\ \E o \in s3 : o.by = r
              /\ \E i, j \in 1..Len(trace[r]) :
                   i < j /\ trace[r][i] = "PutObject" /\ trace[r][j] = "UpdateVideo"
         /\ FailedAt(r, "PutObject") => ~InTrace(r, "UpdateVideo")
    /\ \A v \in Videos :
         db[v].VideoURL # << >> => \E o \in s3 : db[v].VideoURL = URL(o.key)

\* A request's PutObject failed and its record holds no URL, while another
\* request's upload was accepted and its record updated.
C1_Witness ==
    \E r, q \in Reqs :
        /\ FailedAt(r, "PutObject")
        /\ db[request[r].videoID].VideoURL = << >>
        /\ resp[q].status = 200
        /\ db[request[q].videoID].VideoURL # << >>

\* C2: a request whose authenticated user is not the owner of the video
\* never calls UpdateVideo, and a record that holds a URL was written by a
\* request of the record's owner.
C2_NonOwnerNeverUpdates ==
    /\ \A r \in Reqs : NonOwner(r) => ~InTrace(r, "UpdateVideo")
    /\ \A v \in Videos :
         db[v].VideoURL # << >> =>
            \E r \in Reqs :
                /\ request[r].videoID = v
                /\ request[r].userID = db[v].UserID
                /\ InTrace(r, "UpdateVideo")

\* A non-owner's request has been through the ownership check and has ended.
C2_Witness ==
    \E r \in Reqs :
        /\ NonOwner(r)
        /\ InTrace(r, "CheckOwner")
        /\ Done(r)
        /\ db[request[r].videoID].VideoURL = << >>

\* The part's header names video/mp4 (in any case) and parses.
SupportedHeader(ct) ==
    ct.mtype \in {"video/mp4", "Video/MP4"} /\ ct.params \in {"none", "valid"}

\* r has read the part's header, which is not a parseable video/mp4.
Unsupported(r) ==
    request[r].contentType # NoHeader /\ ~SupportedHeader(request[r].contentType)

\* C3: a request whose part declares another content type than video/mp4,
\* or one that does not parse, never reaches os.CreateTemp nor the probe,
\* the remux, the upload or the record update, owns no file, and once past
\* the two content type checks has ended with status 400.
C3_RejectedBeforeTempFile ==
    \A r \in Reqs :
        Unsupported(r) =>
            /\ \A stage \in {"CreateTemp", "Copy", "RandRead", "Probe", "Remux",
                             "OpenProcessed", "PutObject", "UpdateVideo"} :
                   ~InTrace(r, stage)
            /\ FilesBy(r) = {}
            /\ pc[r] \in {"ParseMediaType", "CheckMediaType", "done"}
            /\ Done(r) => resp[r].status = 400

\* Requests rejected for their content type: one that does not parse and one
\* that parses to another type.
C3_Witness ==
    \E r, q \in Reqs :
        /\ Done(r) /\ request[r].contentType.mtype = "image/png"
        /\ LastCall(r) = "CheckMediaType"
        /\ Done(q) /\ request[q].contentType.params = "malformed"
        /\ LastCall(q) = "ParseMediaType"

\* C4: the calls run in the order of StageOrder, none twice; a response is
\* written only as the handler returns; a failed request answers with an
\* error status and made no call after the one that failed; and a record
\* that holds a URL holds the record a request answered with status 200, so
\* a failed request left no record changed.
C4_ForwardAndTerminal ==
    /\ \A r \in Reqs :
         /\ Len(trace[r]) <= Len(StageOrder)
         /\ trace[r] = SubSeq(StageOrder, 1, Len(trace[r]))
         /\ resp[r].status # 0 <=> Done(r)
         /\ ~Done(r) => StageOrder[Len(trace[r]) + 1] = pc[r]
         /\ Failed(r) => resp[r].status \in {400, 401, 500}
         /\ resp[r].status = 200 => trace[r] = StageOrder
    /\ \A v \in Videos :
         db[v].VideoURL # << >> =>
            \E r \in Reqs : resp[r].status = 200 /\ resp[r].body = db[v]

\* A request failed in the remux, after staging and probing, and another at
\* the record update, after its upload: no record holds a URL.
C4_Witness ==
    \E r, q \in Reqs :
        /\ FailedAt(r, "Remux")
        /\ FailedAt(q, "UpdateVideo")
        /\ \A v \in Videos : db[v].VideoURL = << >>

\* C5: when a request has ended, no temporary file it created remains.
C5_TempFilesRemoved ==
    \A r \in Reqs : Done(r) => FilesBy(r) = {}

\* The status the failure class of a call asks for.
ClassStatus(stage) ==
    IF stage \in {"ParseID", "FormFile", "ParseMediaType", "CheckMediaType"} THEN 400
    ELSE IF stage \in {"GetBearerToken", "ValidateJWT", "CheckOwner"} THEN 401
    ELSE 500

\* C6: every error response carries the status of its failure class: 400 for
\* bad input, 401 for authentication and authorization, 500 for the rest.
C6_StatusByClass ==
    \A r \in Reqs : Failed(r) => resp[r].status = ClassStatus(LastCall(r))

\* The classification by the exact ratio wd/ht (ht > 0):
\* |wd/ht - 16/9| <= 1/20 is 20 * |9 wd - 16 ht| <= 9 ht, and
\* |wd/ht - 9/16| <= 1/20 is 20 * |16 wd - 9 ht| <= 16 ht.
Abs(n) == IF n < 0 THEN -n ELSE n

ExactAspect(wd, ht) ==
    IF 20 * Abs(9 * wd - 16 * ht) <= 9 * ht THEN "16:9"
    ELSE IF 20 * Abs(16 * wd - 9 * ht) <= 16 * ht THEN "9:16"
    ELSE "other"

\* C7: for a first stream of height > 0, getVideoAspectRatio gives the
\* classification of the ratio width/height with the tolerance edge
\* inclusive.
C7_ClassifiesByRatio ==
    (result # "none" /\ height > 0) => result = ExactAspect(width, height)

\* The bucket of an aspect ratio.
Bucket(aspect) ==
    CASE aspect = "16:9" -> "landscape/"
      [] aspect = "9:16" -> "portrait/"
      [] OTHER -> "other/"

\* The value of a hex digit, and the bytes a hex string stands for.
DigitValue(d) == (CHOOSE i \in 1..16 : HexDigits[i] = d) - 1

Decode(hex) ==
    [i \in 1..(Len(hex) \div 2) |->
        16 * DigitValue(hex[2 * i - 1]) + DigitValue(hex[2 * i])]

\* key is <bucket>/<hex(id)>.mp4 for this aspect and this random id.
WellFormedKey(key, aspect, id) ==
    /\ Len(key) = 2 * Len(id) + 3
    /\ key[1] = Bucket(aspect)
    /\ Decode(SubSeq(key, 2, Len(key) - 2)) = id
    /\ SubSeq(key, Len(key) - 1, Len(key)) = <<".", "mp4">>

\* C8: a request whose upload was accepted holds the key
\* <bucket>/<hex(random id)>.mp4 with the bucket of the aspect the probe
\* gave, and that key is the accepted object's; a request answered with 200
\* is the owner's, went through every stage, and its body is the record of
\* the video it named with the URL of the storage host ending in the key of
\* an object accepted for it, in one of the three buckets.
C8_SuccessKeyAndURL ==
    \A r \in Reqs :
        /\ pc[r] = "UpdateVideo" =>
              /\ WellFormedKey(local[r].key, local[r].aspect, local[r].slice)
              /\ \E o \in s3 : o.by = r /\ o.key = local[r].key
        /\ resp[r].status = 200 =>
              /\ Done(r)
              /\ ~NonOwner(r)
              /\ resp[r].body.ID = request[r].videoID
              /\ resp[r].body.UserID = request[r].userID
              /\ \E o \in s3 :
                    /\ o.by = r
                    /\ o.key[1] \in {"landscape/", "portrait/", "other/"}
                    /\ resp[r].body.VideoURL =
                          <<"https://", s3Bucket, ".s3.", s3Region, ".amazonaws.com/">>
                          \o o.key

\* The owner's upload of a landscape file was answered with 200 and the
\* record holds a URL in the landscape bucket.
C8_Witness ==
    \E r \in Reqs :
        /\ resp[r].status = 200
        /\ resp[r].body.VideoURL[6] = "landscape/"
        /\ db[request[r].videoID] = resp[r].body

\* C9: the staged file and the remux output of a request never are at the
\* path of a file another request created.
C9_OwnTempFiles ==
    \A r \in Reqs :
        local[r].tempFile # NoPath =>
            \A f \in fs :
                f.by # r =>
                    /\ f.path # local[r].tempFile
                    /\ f.path # OutputFilePath(local[r].tempFile)

\* C10 as the specification states it: past the ownership check, a
\* non-owner's request goes on to parse the form.
C10_ContinuesPastCheck ==
    \A r \in Reqs :
        (NonOwner(r) /\ InTrace(r, "CheckOwner")) => InTrace(r, "FormFile")

\* C10, amended: a non-owner's request ends at the ownership check with
\* status 401: it makes no later call, creates no file and puts no object.
C10_StopsAtCheck ==
    \A r \in Reqs :
        (NonOwner(r) /\ InTrace(r, "CheckOwner")) =>
            /\ Done(r)
            /\ resp[r].status = 401
            /\ LastCall(r) = "CheckOwner"
            /\ FilesBy(r) = {}
            /\ \A o \in s3 : o.by # r

\* A non-owner's request was answered with 401 at the ownership check while
\* the owner's request for the same video went on past it.
C10_Witness ==
    \E r, q \in Reqs :
        /\ NonOwner(r) /\ FailedAt(r, "CheckOwner") /\ resp[r].status = 401
        /\ request[q].videoID = request[r].videoID
        /\ InTrace(q, "FormFile")

====
